---------------------------- MODULE Spec2Model ----------------------------
(***************************************************************************)
(* Model of the Pledges event handler of feathers-giveth                   *)
(* (src/.circleci/config.yml, lines 48-591): the per-transaction ordering  *)
(* of Transfer events, the block-timestamp cache, the reconciliation of    *)
(* donations (mint, full transfer, split) and the history tracker.         *)
(*                                                                         *)
(* Execution model: single-threaded JavaScript.  Every action below is one *)
(* synchronous segment of the code (from one suspension point to the       *)
(* next); the completion of an external call is an action of its own.      *)
(***************************************************************************)
EXTENDS Integers, Sequences, FiniteSets, TLC

(***************************************************************************)
(* Bounds of the model.                                                    *)
(***************************************************************************)
\* number of Transfer events submitted in one behaviour; also the number of
\* concurrent callers of getBlockTimestamp
MaxEvents == 2
\* transaction hashes 1..NumTx
NumTx == 2
\* block numbers 1..NumBlocks carry the transactions
NumBlocks == 1
\* transferred amounts 1..MaxAmount
MaxAmount == 2
\* block numbers beyond the warm cache requested in the cache specification
NumFreshBlocks == 3
\* donations created through the REST api in one behaviour
MaxRest == 1

\* src line 576: "only keep 50 block ts cached"
CacheCap == 50

Events == 1..MaxEvents
TxHashes == 1..NumTx
Blocks == 1..NumBlocks
Amounts == 1..MaxAmount

\* event.blockNumber: the transactions are carried by the blocks in turn
BlockOf(tx) == ((tx - 1) % NumBlocks) + 1

VARIABLES
    blockTimes,      \* this.blockTimes: block number -> cached timestamp
    fetchingBlocks,  \* this.fetchingBlocks: block number -> list of waiters
    inFlight,        \* outstanding web3.eth.getBlock calls: {[blk, caller]}
    tsCall,          \* per caller: the promise returned by getBlockTimestamp
    pledges,         \* liquidPledging.getPledge: pledge id -> pledge
    admins,          \* pledgeAdmins service: admin id -> pledgeAdmin
    donations,       \* donations service: the records, _id = position
    history,         \* donations/history service: the entries created
    nRest,           \* donations created through the REST api so far
    queue,           \* eventQueue: txHash -> queued processEvent tasks
    processing,      \* eventQueue: txHash -> a task of the key is running
    events,          \* the Transfer events handed to transfer(), in order
    proc,            \* per event: where its processEvent task stands
    calls,           \* per event: store calls, reschedules, purges issued
    mile,            \* per event: milestones.patch calls issued
    mutIn,           \* argument of createDonationMutation under test
    mutOut           \* its result

cacheVars == <<blockTimes, fetchingBlocks, inFlight, tsCall>>
chainVars == <<pledges, admins>>
storeVars == <<donations, history, nRest>>
queueVars == <<queue, processing>>
eventVars == <<events, proc, calls, mile>>
engineVars == <<pledges, admins, donations, history, nRest, queue, processing, events, proc, calls, mile>>
mutVars == <<mutIn, mutOut>>

vars == <<blockTimes, fetchingBlocks, inFlight, tsCall, pledges, admins, donations, history, nRest, queue, processing, events, proc, calls, mile, mutIn, mutOut>>

(***************************************************************************)
(* Block-timestamp cache: getBlockTimestamp, src lines 557-588.            *)
(***************************************************************************)

\* block.timestamp as the chain reports it (epoch seconds); a fixed function
\* of the block number
BlockTimestamp(b) == 1500000 + b

\* line 571: new Date(block.timestamp * 1000)
DateOf(seconds) == seconds * 1000

NoCall == [st |-> "none", blk |-> 0, ts |-> 0]

RECURSIVE SortDesc(_)
\* Object.keys(...).sort((a, b) => b - a): the keys by descending number
SortDesc(S) ==
    IF S = {} THEN <<>>
    ELSE LET m == CHOOSE x \in S : \A y \in S : y <= x
         IN  <<m>> \o SortDesc(S \ {m})

RECURSIVE DeleteKeys(_, _)
\* .forEach(key => delete this.blockTimes[key]) over the list of keys
DeleteKeys(bt, keys) ==
    IF keys = <<>> THEN bt
    ELSE LET rest == [k \in (DOMAIN bt) \ {Head(keys)} |-> bt[k]]
         IN  DeleteKeys(rest, Tail(keys))

\* lines 575-580, without the eviction
EvictNever(bt) == bt

\* lines 575-580: when more than 50 keys are cached, every key of the sorted
\* list is deleted (the list is not sliced)
Evict(bt) ==
    IF Cardinality(DOMAIN bt) > CacheCap
    THEN DeleteKeys(bt, SortDesc(DOMAIN bt))
    ELSE bt

\* getBlockTimestamp that never attaches to a fetch in flight
getBlockTimestampNoCoalesce(c, b) ==
    IF b \in DOMAIN blockTimes
    THEN /\ tsCall' = [tsCall EXCEPT ![c] = [st |-> "resolved", blk |-> b, ts |-> blockTimes[b]]]
         /\ UNCHANGED <<blockTimes, fetchingBlocks, inFlight>>
    ELSE /\ fetchingBlocks' = [k \in (DOMAIN fetchingBlocks) \cup {b} |-> IF k = b THEN <<>> ELSE fetchingBlocks[k]]
         /\ inFlight' = inFlight \cup {[blk |-> b, caller |-> c]}
         /\ tsCall' = [tsCall EXCEPT ![c] = [st |-> "pending", blk |-> b, ts |-> 0]]
         /\ UNCHANGED blockTimes

\* lines 557-570: the synchronous part of getBlockTimestamp(blockNumber),
\* called by caller c
getBlockTimestamp(c, b) ==
    IF b \in DOMAIN blockTimes
    THEN \* line 558: cached, Promise.resolve
         /\ tsCall' = [tsCall EXCEPT ![c] = [st |-> "resolved", blk |-> b, ts |-> blockTimes[b]]]
         /\ UNCHANGED <<blockTimes, fetchingBlocks, inFlight>>
    ELSE IF b \in DOMAIN fetchingBlocks
    THEN \* lines 561-566: attach a listener to the fetch in flight
         /\ fetchingBlocks' = [fetchingBlocks EXCEPT ![b] = Append(@, c)]
         /\ tsCall' = [tsCall EXCEPT ![c] = [st |-> "pending", blk |-> b, ts |-> 0]]
         /\ UNCHANGED <<blockTimes, inFlight>>
    ELSE \* lines 568-570: start the fetch
         /\ fetchingBlocks' = [k \in (DOMAIN fetchingBlocks) \cup {b} |-> IF k = b THEN <<>> ELSE fetchingBlocks[k]]
         /\ inFlight' = inFlight \cup {[blk |-> b, caller |-> c]}
         /\ tsCall' = [tsCall EXCEPT ![c] = [st |-> "pending", blk |-> b, ts |-> 0]]
         /\ UNCHANGED blockTimes

SeqToSet(s) == {s[i] : i \in 1..Len(s)}

\* lines 570-587: web3.eth.getBlock(b) of caller c resolves
GetBlockResolve(f) ==
    /\ f \in inFlight
    /\ LET b  == f.blk
           ts == DateOf(BlockTimestamp(b))
           bt == [k \in (DOMAIN blockTimes) \cup {b} |-> IF k = b THEN ts ELSE blockTimes[k]]
       IN  /\ blockTimes' = Evict(bt)
           /\ inFlight' = inFlight \ {f}
           /\ IF b \in DOMAIN fetchingBlocks
              THEN \* lines 583-586: resolve the listeners, then the caller
                   /\ tsCall' = [c \in DOMAIN tsCall |->
                                   IF c = f.caller \/ c \in SeqToSet(fetchingBlocks[b])
                                   THEN [st |-> "resolved", blk |-> b, ts |-> ts]
                                   ELSE tsCall[c]]
                   /\ fetchingBlocks' = [k \in (DOMAIN fetchingBlocks) \ {b} |-> fetchingBlocks[k]]
              ELSE \* line 583 on a deleted list: TypeError, the promise rejects
                   /\ tsCall' = [tsCall EXCEPT ![f.caller] = [st |-> "rejected", blk |-> b, ts |-> 0]]
                   /\ UNCHANGED fetchingBlocks
    /\ UNCHANGED <<engineVars, mutVars>>

\* line 570: web3.eth.getBlock(b) of caller c rejects; the .then callback is
\* skipped, so neither the listeners nor fetchingBlocks[b] are touched
GetBlockReject(f) ==
    /\ f \in inFlight
    /\ inFlight' = inFlight \ {f}
    /\ tsCall' = [tsCall EXCEPT ![f.caller] = [st |-> "rejected", blk |-> f.blk, ts |-> 0]]
    /\ UNCHANGED <<blockTimes, fetchingBlocks>>
    /\ UNCHANGED <<engineVars, mutVars>>

(***************************************************************************)
(* Values.  Amounts and pledge ids are the numbers their decimal strings   *)
(* denote ('0' is 0); admin ids and pledge states stay strings, as the     *)
(* code compares them with ===.                                            *)
(***************************************************************************)
Undefined == "undefined"

\* JavaScript truthiness of an optional string field
Truthy(v) == v # Undefined /\ v # ""

\* the pledgeAdmin that is not there (delegate, intendedProject: undefined)
NoAdmin == [id |-> "0", type |-> "none", typeId |-> "none"]

Present(a) == a # NoAdmin

\* the donation that is not there
NoDonation ==
    [amount |-> 0, pledgeId |-> 0, txHash |-> 0, owner |-> "0", status |-> "none",
     delegate |-> Undefined, intendedProject |-> Undefined]

(***************************************************************************)
(* getDonationStatus, src lines 60-66.                                     *)
(***************************************************************************)
getDonationStatus(pledge, pledgeAdmin, hasIntendedProject, hasDelegate) ==
    IF pledge.pledgeState = "1" THEN "paying"
    ELSE IF pledge.pledgeState = "2" THEN "paid"
    ELSE IF hasIntendedProject THEN "to_approve"
    ELSE IF pledgeAdmin.type = "giver" \/ hasDelegate THEN "waiting"
    ELSE "committed"

(***************************************************************************)
(* Mutations: keys are the fields assigned, v their values (a field that   *)
(* is not in keys keeps its default), unset is the $unset directive (empty *)
(* when the mutation has none).  paymentStatus is left out: its value is   *)
(* computed by a helper that is not part of the sources.                   *)
(***************************************************************************)
NoValues ==
    [amount |-> 0, pledgeId |-> 0, txHash |-> 0, owner |-> "0", ownerId |-> Undefined,
     ownerType |-> Undefined, status |-> Undefined, commitTime |-> 0,
     intendedProject |-> Undefined, intendedProjectId |-> Undefined,
     intendedProjectType |-> Undefined, delegate |-> Undefined, delegateId |-> Undefined]

IntendedProjectFields == {"intendedProject", "intendedProjectId", "intendedProjectType"}
DelegateFields == {"delegate", "delegateId", "delegateType"}

\* the delegate is dropped only when the pledge has none left
DropsDelegateOnlyWhenGone(info) ==
    ~Present(info.delegate) /\ Truthy(info.donation.delegate)

\* line 330: (!delegate || toPledge.pledgeState === '1') && donation.delegate
DropsDelegate(info) ==
    (~Present(info.delegate) \/ info.toPledge.pledgeState = "1") /\ Truthy(info.donation.delegate)

\* the milestone is updated for every milestone destination
UpdatesMilestoneAlways(info) ==
    info.toPledgeAdmin.type = "milestone"

\* line 342: ['1', '2'].includes(toPledge.pledgeState) && toPledgeAdmin.type === 'milestone'
UpdatesMilestone(info) ==
    info.toPledge.pledgeState \in {"1", "2"} /\ info.toPledgeAdmin.type = "milestone"

\* lines 340-347: the milestones.patch calls createDonationMutation issues
MilestonePatches(info) ==
    IF UpdatesMilestone(info)
    THEN << [id |-> info.toPledgeAdmin.typeId,
             status |-> IF info.toPledge.pledgeState = "1" THEN "Paying" ELSE "Paid",
             mined |-> TRUE] >>
    ELSE <<>>

\* lines 270-350: the mutation createDonationMutation returns
createDonationMutation(info) ==
    LET status == getDonationStatus(info.toPledge, info.toPledgeAdmin,
                                    Present(info.intendedProject), Present(info.delegate))
        \* lines 284-294
        m0 == [keys |-> {"amount", "owner", "ownerId", "ownerType", "intendedProject",
                         "pledgeId", "commitTime", "status"},
               v |-> [NoValues EXCEPT
                        !.amount = info.amount,
                        !.owner = info.toPledge.owner,
                        !.ownerId = info.toPledgeAdmin.typeId,
                        !.ownerType = info.toPledgeAdmin.type,
                        !.intendedProject = info.toPledge.intendedProject,
                        !.pledgeId = info.toPledgeId,
                        !.commitTime = IF info.toPledge.commitTime > 0
                                       THEN DateOf(info.toPledge.commitTime)
                                       ELSE info.ts,
                        !.status = status],
               unset |-> {}]
        \* lines 298-303
        m1 == IF Present(info.intendedProject)
              THEN [m0 EXCEPT !.keys = @ \cup {"intendedProjectId", "intendedProjectType"},
                              !.v.intendedProjectId = info.intendedProject.typeId,
                              !.v.intendedProjectType = info.intendedProject.type]
              ELSE m0
        \* lines 305-315
        m2 == IF ~Present(info.intendedProject) /\ Truthy(info.donation.intendedProject)
              THEN [m1 EXCEPT !.keys = @ \ {"intendedProject"},
                              !.v.intendedProject = Undefined,
                              !.unset = IntendedProjectFields]
              ELSE m1
        \* lines 319-324
        m3 == IF Present(info.delegate)
              THEN [m2 EXCEPT !.keys = @ \cup {"delegate", "delegateId"},
                              !.v.delegate = info.delegate.id,
                              !.v.delegateId = info.delegate.typeId]
              ELSE m2
        \* lines 330-338: Object.assign replaces any $unset assigned before
        m4 == IF DropsDelegate(info)
              THEN [m3 EXCEPT !.unset = DelegateFields]
              ELSE m3
    IN  m4

\* lines 130-139: the mutation newDonation builds for a mint
MintMutation(pledge, giver, pledgeId, amount) ==
    [keys |-> {"amount", "pledgeId", "owner", "ownerId", "ownerType", "status"},
     v |-> [NoValues EXCEPT
              !.amount = amount,
              !.pledgeId = pledgeId,
              !.owner = pledge.owner,
              !.ownerId = giver.typeId,
              !.ownerType = giver.type,
              !.status = "waiting"],
     unset |-> {}]

\* the fields of a donation record the model keeps
DonationFields == {"amount", "pledgeId", "txHash", "owner", "status", "delegate", "intendedProject"}

\* Object.assign({}, donation, mutation): the fields the mutation assigns
\* replace the donation's (lines 146, 450)
AssignFields(d, m) ==
    [amount |-> IF "amount" \in m.keys THEN m.v.amount ELSE d.amount,
     pledgeId |-> IF "pledgeId" \in m.keys THEN m.v.pledgeId ELSE d.pledgeId,
     txHash |-> IF "txHash" \in m.keys THEN m.v.txHash ELSE d.txHash,
     owner |-> IF "owner" \in m.keys THEN m.v.owner ELSE d.owner,
     status |-> IF "status" \in m.keys THEN m.v.status ELSE d.status,
     delegate |-> IF "delegate" \in m.keys THEN m.v.delegate ELSE d.delegate,
     intendedProject |-> IF "intendedProject" \in m.keys THEN m.v.intendedProject
                         ELSE d.intendedProject]

\* donations.patch(id, mutation) as the store applies it (lines 154, 421,
\* 442): the assigned fields are set, the fields of $unset are removed
PatchRecord(d, m) ==
    LET a == AssignFields(d, m)
    IN  [a EXCEPT !.delegate = IF "delegate" \in m.unset THEN Undefined ELSE @,
                  !.intendedProject = IF "intendedProject" \in m.unset THEN Undefined ELSE @]

(***************************************************************************)
(* Lookups in the donation store.                                          *)
(***************************************************************************)
DonationIds(store) == [i \in 1..Len(store) |-> i]

\* lines 121-124: findDonation, the first donation with the txHash (0: none)
findDonation(store, txHash) ==
    LET data == SelectSeq(DonationIds(store), LAMBDA i : store[i].txHash = txHash)
    IN  IF Len(data) > 0 THEN data[1] ELSE 0

\* getDonation that falls back on the first candidate instead of throwing
getDonationFirstCandidate(store, from, amount, txHash) ==
    LET data == SelectSeq(DonationIds(store), LAMBDA i : store[i].pledgeId = from)
        filteredDonationsByTxHash == SelectSeq(data, LAMBDA i : store[i].txHash = txHash)
        filteredDonationsByAmount == SelectSeq(data, LAMBDA i : store[i].amount = amount)
    IN  IF Len(data) = 1 THEN data[1]
        ELSE IF Len(filteredDonationsByTxHash) = 1 THEN filteredDonationsByTxHash[1]
        ELSE IF Len(filteredDonationsByAmount) > 0 THEN filteredDonationsByAmount[1]
        ELSE IF Len(data) > 0 THEN data[1]
        ELSE 0

\* getDonation that matches by amount before it matches by txHash
getDonationAmountFirst(store, from, amount, txHash) ==
    LET data == SelectSeq(DonationIds(store), LAMBDA i : store[i].pledgeId = from)
        filteredDonationsByTxHash == SelectSeq(data, LAMBDA i : store[i].txHash = txHash)
        filteredDonationsByAmount == SelectSeq(data, LAMBDA i : store[i].amount = amount)
    IN  IF Len(data) = 1 THEN data[1]
        ELSE IF Len(filteredDonationsByAmount) > 0 THEN filteredDonationsByAmount[1]
        ELSE IF Len(filteredDonationsByTxHash) = 1 THEN filteredDonationsByTxHash[1]
        ELSE 0

\* lines 162-197: getDonation, the donation a transfer acts on (0: it throws)
getDonation(store, from, amount, txHash) ==
    LET data == SelectSeq(DonationIds(store), LAMBDA i : store[i].pledgeId = from)
        filteredDonationsByTxHash == SelectSeq(data, LAMBDA i : store[i].txHash = txHash)
        filteredDonationsByAmount == SelectSeq(data, LAMBDA i : store[i].amount = amount)
    IN  IF Len(data) = 1 THEN data[1]
        ELSE IF Len(filteredDonationsByTxHash) = 1 THEN filteredDonationsByTxHash[1]
        ELSE IF Len(filteredDonationsByAmount) > 0 THEN filteredDonationsByAmount[1]
        ELSE 0

(***************************************************************************)
(* _doTransfer, src lines 352-463.                                         *)
(***************************************************************************)
\* every transfer is handled as a split
IsFullTransferNever(donation, amount) == FALSE

\* line 367: donation.amount === amount
IsFullTransfer(donation, amount) == donation.amount = amount

\* the original donation keeps its amount
SplitRemainderKept(donationAmount, amount) == donationAmount

\* lines 428-430: toBN(donation.amount).sub(toBN(amount))
SplitRemainder(donationAmount, amount) == donationAmount - amount

\* lines 427-446: updateDonation, the patch of the original donation of a split
SplitUpdate(info) ==
    [keys |-> {"status", "amount"},
     v |-> [NoValues EXCEPT
              !.amount = SplitRemainder(info.donation.amount, info.amount),
              !.status = IF info.amount = 0 THEN "paid"
                         ELSE getDonationStatus(info.fromPledge, info.fromPledgeAdmin,
                                  Truthy(info.donation.intendedProject)
                                      /\ info.donation.intendedProject # "0",
                                  Truthy(info.donation.delegate))],
     unset |-> {}]

\* lines 450-456: the new donation of a split
SplitDonation(info) == AssignFields(info.donation, createDonationMutation(info))

(***************************************************************************)
(* trackDonationHistory, src lines 465-540: the entries it creates (none   *)
(* or one).                                                                *)
(***************************************************************************)
isNewDonation(info) ==
    /\ info.toDonation = 0
    /\ info.fromPledge.oldPledge = "0"
    /\ (info.toPledgeAdmin.type # "giver" \/ info.toPledge.nDelegates = 1)
    /\ info.toPledge.intendedProject = "0"

isCommittedDelegation(info) ==
    /\ info.toDonation = 0
    /\ info.fromPledge.intendedProject # "0"
    /\ info.fromPledge.intendedProject = info.toPledge.owner

isCampaignToMilestone(info) ==
    /\ info.toDonation = 0
    /\ info.fromPledgeAdmin.type = "campaign"
    /\ info.toPledgeAdmin.type = "milestone"

\* a split is recorded whatever the state of the destination pledge
IsRegularTransferAnyState(info) == info.toDonation # 0

\* line 519: toPledge.pledgeState === '0' && toDonation
IsRegularTransfer(info) == info.toPledge.pledgeState = "0" /\ info.toDonation # 0

trackDonationHistory(info) ==
    LET h == [ownerId |-> info.toPledgeAdmin.typeId,
              amount |-> info.amount,
              txHash |-> info.donation.txHash,
              donationId |-> info.donationId,
              fromDonationId |-> 0,
              delegateId |-> IF Present(info.delegate) THEN info.delegate.typeId ELSE Undefined]
    IN  IF /\ info.toPledge.pledgeState = "0"
           /\ (isNewDonation(info) \/ isCommittedDelegation(info) \/ isCampaignToMilestone(info))
        THEN {h}
        ELSE IF IsRegularTransfer(info)
        THEN {[h EXCEPT !.donationId = info.toDonation, !.fromDonationId = info.donationId]}
        ELSE {}

(***************************************************************************)
(* The event queue.  Its code is not part of the sources; it is modelled   *)
(* from its contract: add(key, task) enqueues, isProcessing(key) tells     *)
(* whether a task of the key runs, purge(key) starts the next queued task  *)
(* of the key or marks the key idle.                                       *)
(***************************************************************************)
QueueAdd(q, key, task) == [q EXCEPT ![key] = Append(@, task)]

IsProcessing(key) == processing[key]

(***************************************************************************)
(* The events and their processEvent tasks.                                *)
(***************************************************************************)
NoProc ==
    [pc |-> "new", retry |-> FALSE, ts |-> 0, lookup |-> "none", donationId |-> 0,
     donation |-> NoDonation, toDonation |-> 0, writes |-> {}]

\* failed counts the external calls of the event that rejected
NoCalls ==
    [find |-> 0, patch |-> 0, create |-> 0, history |-> 0, resched |-> 0, purge |-> 0,
     failed |-> 0]

IsMint(e) == events[e].from = 0

\* lines 200-252: transferInfo of event e, whose task stands at p
TransferInfo(e, p) ==
    LET ev == events[e]
        fromPledge == pledges[ev.from]
        toPledge == pledges[ev.to]
    IN  [fromPledgeAdmin |-> admins[fromPledge.owner],
         toPledgeAdmin |-> admins[toPledge.owner],
         fromPledge |-> fromPledge,
         toPledge |-> toPledge,
         toPledgeId |-> ev.to,
         delegate |-> IF toPledge.nDelegates > 0 THEN admins[toPledge.lastDelegate] ELSE NoAdmin,
         intendedProject |-> IF toPledge.intendedProject # "0"
                             THEN admins[toPledge.intendedProject] ELSE NoAdmin,
         donation |-> p.donation,
         donationId |-> p.donationId,
         toDonation |-> p.toDonation,
         amount |-> ev.amount,
         ts |-> p.ts]

\* lines 86-87: processEvent of event e runs up to its first await
RunTask(e, blockNumber, base) ==
    /\ proc' = [base EXCEPT ![e].pc = "awaitTs", ![e].lookup = "none"]
    /\ getBlockTimestamp(e, blockNumber)

\* queue.purge(key) on the queue q: the next task of the key is started, or
\* the key becomes idle
QueuePurge(key, q, base) ==
    IF q[key] # <<>>
    THEN /\ queue' = [q EXCEPT ![key] = Tail(@)]
         /\ processing' = [processing EXCEPT ![key] = TRUE]
         /\ RunTask(Head(q[key]), BlockOf(key), base)
    ELSE /\ queue' = q
         /\ processing' = [processing EXCEPT ![key] = FALSE]
         /\ proc' = base
         /\ UNCHANGED cacheVars

\* transfer() starts a task whatever the queue is doing
StartsWorkerAlways(txHash) == TRUE

\* line 110: !this.queue.isProcessing(txHash)
StartsWorker(txHash) == ~IsProcessing(txHash)

\* lines 80-115: transfer(event), for a Transfer event
Transfer(from, to, amount, txHash) ==
    /\ Len(events) < MaxEvents
    /\ LET e == Len(events) + 1
           q == QueueAdd(queue, txHash, e)
           base == [proc EXCEPT ![e].pc = "queued"]
       IN  /\ events' = Append(events, [from |-> from, to |-> to, amount |-> amount,
                                        txHash |-> txHash, blockNumber |-> BlockOf(txHash)])
           /\ IF StartsWorker(txHash)
              THEN QueuePurge(txHash, q, base)
              ELSE /\ queue' = q
                   /\ proc' = base
                   /\ UNCHANGED <<processing, cacheVars>>
    /\ UNCHANGED <<chainVars, storeVars, calls, mile, mutVars>>

\* line 87: the await of getBlockTimestamp resumes with the timestamp; the
\* task goes on to read the pledges (lines 126-127, 200)
AfterTs(e) ==
    /\ proc[e].pc = "awaitTs"
    /\ tsCall[e].st = "resolved"
    /\ proc' = [proc EXCEPT ![e].pc = "getPledge", ![e].ts = tsCall[e].ts]
    /\ UNCHANGED <<cacheVars, chainVars, storeVars, queueVars, events, calls, mile, mutVars>>

\* lines 126-128, 200-230: liquidPledging.getPledge returns (ok) or rejects;
\* on success the admins are read and the donation is looked up
GetPledgeDone(e, ok) ==
    /\ proc[e].pc = "getPledge"
    /\ IF ok
       THEN /\ proc' = [proc EXCEPT ![e].pc = "find"]
            /\ calls' = [calls EXCEPT ![e].find = @ + 1]
       ELSE /\ proc' = [proc EXCEPT ![e].pc = "purge"]
            /\ calls' = [calls EXCEPT ![e].failed = @ + 1]
    /\ UNCHANGED <<cacheVars, chainVars, storeVars, queueVars, events, mile, mutVars>>

\* a mint that finds no donation creates one at once
MintStepCreatesAtOnce(found, retry) ==
    IF ~found THEN "create" ELSE "patch"

\* lines 141-154: what newDonation does with the result of findDonation
MintStep(found, retry) ==
    IF ~found
    THEN IF retry THEN "create" ELSE "reprocess"
    ELSE "patch"

\* processEvent sets the timer and falls through to the purge of line 103
AfterReProcessFallsThrough == "purge"

\* lines 92-96: when newDonation threw ReProcessEvent, processEvent sets the
\* timer and returns, leaving the key as it is
AfterReProcess == "retryWait"

\* lines 129-155 and 88-99: the reads of newDonation have returned
MintFound(e) ==
    LET id == findDonation(donations, events[e].txHash)
        step == MintStep(id # 0, proc[e].retry)
    IN  /\ IF step = "reprocess"
           THEN \* lines 151, 92-96: ReProcessEvent, setTimeout(processEvent(true))
                /\ proc' = [proc EXCEPT ![e].pc = AfterReProcess, ![e].lookup = "missing"]
                /\ calls' = [calls EXCEPT ![e].resched = @ + 1]
           ELSE IF step = "create"
           THEN \* line 146
                /\ proc' = [proc EXCEPT ![e].pc = "write", ![e].writes = {"create"},
                                        ![e].lookup = "missing"]
                /\ calls' = [calls EXCEPT ![e].create = @ + 1]
           ELSE \* line 154
                /\ proc' = [proc EXCEPT ![e].pc = "write", ![e].writes = {"patch"},
                                        ![e].lookup = "hit",
                                        ![e].donationId = id, ![e].donation = donations[id]]
                /\ calls' = [calls EXCEPT ![e].patch = @ + 1]
        /\ UNCHANGED mile

\* lines 231-259 and 352-462: the reads of _transfer have returned;
\* _doTransfer issues its store calls
TransferFound(e) ==
    LET id == getDonation(donations, events[e].from, events[e].amount, events[e].txHash)
    IN  IF id = 0
        THEN \* lines 186-196: the lookup throws, .catch(logger.error)
             /\ proc' = [proc EXCEPT ![e].pc = "purge", ![e].lookup = "missing"]
             /\ UNCHANGED <<calls, mile>>
        ELSE LET p == [proc EXCEPT ![e].lookup = "hit", ![e].donationId = id,
                                   ![e].donation = donations[id]]
                 info == TransferInfo(e, p[e])
             IN  /\ mile' = [mile EXCEPT ![e] = @ \o MilestonePatches(info)]
                 /\ IF IsFullTransfer(info.donation, info.amount)
                    THEN \* lines 420-421
                         /\ proc' = [p EXCEPT ![e].pc = "write", ![e].writes = {"patch"}]
                         /\ calls' = [calls EXCEPT ![e].patch = @ + 1]
                    ELSE \* line 460
                         /\ proc' = [p EXCEPT ![e].pc = "write", ![e].writes = {"patch", "create"}]
                         /\ calls' = [calls EXCEPT ![e].patch = @ + 1, ![e].create = @ + 1]

\* the store and admin reads issued with the lookup return (ok) or one of
\* them rejects; lookup keeps what the lookup of this attempt gave
FindDone(e, ok) ==
    /\ proc[e].pc = "find"
    /\ IF ~ok
       THEN /\ proc' = [proc EXCEPT ![e].pc = "purge", ![e].lookup = "failed"]
            /\ calls' = [calls EXCEPT ![e].failed = @ + 1]
            /\ UNCHANGED mile
       ELSE IF IsMint(e) THEN MintFound(e) ELSE TransferFound(e)
    /\ UNCHANGED <<cacheVars, chainVars, storeVars, queueVars, events, mutVars>>

\* the mutation a donations.patch call of event e carries
PatchOf(e) ==
    LET ev == events[e]
        info == TransferInfo(e, proc[e])
    IN  IF IsMint(e)
        THEN MintMutation(pledges[ev.to], admins[pledges[ev.to].owner], ev.to, ev.amount)
        ELSE IF IsFullTransfer(info.donation, info.amount)
        THEN createDonationMutation(info)
        ELSE SplitUpdate(info)

\* the record a donations.create call of event e carries
CreateOf(e) ==
    LET ev == events[e]
        m == MintMutation(pledges[ev.to], admins[pledges[ev.to].owner], ev.to, ev.amount)
    IN  IF IsMint(e)
        THEN \* line 146: Object.assign(mutation, { txHash })
             AssignFields(NoDonation, [m EXCEPT !.keys = @ \cup {"txHash"}, !.v.txHash = ev.txHash])
        ELSE SplitDonation(TransferInfo(e, proc[e]))

\* the continuation runs as soon as one of the calls has resolved
PromiseAnyResolved(left) == TRUE

\* lines 420-422, 460: the .then continuation runs when the patch, or
\* Promise.all of the patch and the create, has resolved: no call is left
PromiseAllResolved(left) == left = {}

\* a donations.patch or donations.create call of event e completes (ok: the
\* store has applied it) or rejects; lines 89, 420-423, 460-462 go on
WriteDone(e, w, ok) ==
    /\ w \in proc[e].writes
    /\ LET left == proc[e].writes \ {w}
           created == IF ok /\ w = "create" THEN Len(donations) + 1 ELSE proc[e].toDonation
           p == [proc EXCEPT ![e].writes = left, ![e].toDonation = created]
           entries == trackDonationHistory(TransferInfo(e, p[e]))
       IN  /\ donations' = IF ~ok THEN donations
                           ELSE IF w = "patch"
                           THEN [donations EXCEPT ![proc[e].donationId] = PatchRecord(@, PatchOf(e))]
                           ELSE Append(donations, CreateOf(e))
           /\ IF proc[e].pc # "write"
              THEN \* Promise.all has rejected already: nothing waits for this call
                   /\ proc' = p
                   /\ calls' = [calls EXCEPT ![e].failed = IF ok THEN @ ELSE @ + 1]
              ELSE IF ~ok
              THEN \* lines 91-98 (logged), 260 (.catch)
                   /\ proc' = [p EXCEPT ![e].pc = "purge"]
                   /\ calls' = [calls EXCEPT ![e].failed = @ + 1]
              ELSE IF ~PromiseAllResolved(left)
              THEN /\ proc' = p
                   /\ UNCHANGED calls
              ELSE IF IsMint(e) \/ entries = {}
              THEN /\ proc' = [p EXCEPT ![e].pc = "purge"]
                   /\ UNCHANGED calls
              ELSE \* lines 515, 526: donationsHistory.create
                   /\ proc' = [p EXCEPT ![e].pc = "history"]
                   /\ calls' = [calls EXCEPT ![e].history = @ + 1]
    /\ UNCHANGED <<cacheVars, chainVars, history, nRest, queueVars, events, mile, mutVars>>

\* donationsHistory.create of event e completes or rejects
HistoryDone(e, ok) ==
    /\ proc[e].pc = "history"
    /\ history' = IF ok
                  THEN history \cup {[ev |-> e, entry |-> h] : h \in trackDonationHistory(TransferInfo(e, proc[e]))}
                  ELSE history
    /\ proc' = [proc EXCEPT ![e].pc = "purge"]
    /\ calls' = [calls EXCEPT ![e].failed = IF ok THEN @ ELSE @ + 1]
    /\ UNCHANGED <<cacheVars, chainVars, donations, nRest, queueVars, events, mile, mutVars>>

\* line 103: processEvent calls queue.purge(txHash) and ends
Purge(e) ==
    /\ proc[e].pc = "purge"
    /\ calls' = [calls EXCEPT ![e].purge = @ + 1]
    /\ QueuePurge(events[e].txHash, queue, [proc EXCEPT ![e].pc = "done"])
    /\ UNCHANGED <<chainVars, storeVars, events, mile, mutVars>>

\* line 95: the timer fires, processEvent(true)
TimerFire(e) ==
    /\ proc[e].pc = "retryWait"
    /\ RunTask(e, events[e].blockNumber, [proc EXCEPT ![e].retry = TRUE])
    /\ UNCHANGED <<chainVars, storeVars, queueVars, events, calls, mile, mutVars>>

\* lines 142-150: the donation entity of a transaction is created through
\* the REST api, before or after the mint event arrives
RestCreate(txHash) ==
    /\ nRest < MaxRest
    /\ findDonation(donations, txHash) = 0
    /\ donations' = Append(donations, [NoDonation EXCEPT !.amount = 1, !.txHash = txHash,
                                                          !.status = "pending"])
    /\ nRest' = nRest + 1
    /\ UNCHANGED <<cacheVars, chainVars, history, queueVars, eventVars, mutVars>>

(***************************************************************************)
(* The chain: pledge 1 is owned by a giver and delegated to a dac; pledge  *)
(* 2 descends from it and is owned by a campaign or a milestone, in any    *)
(* pledge state.                                                           *)
(***************************************************************************)
AdminsWith(type) ==
    [a \in {"1", "2", "3"} |->
        IF a = "1" THEN [id |-> "1", type |-> "giver", typeId |-> "u1"]
        ELSE IF a = "2" THEN [id |-> "2", type |-> "dac", typeId |-> "d2"]
        ELSE [id |-> "3", type |-> type, typeId |-> "p3"]]

PledgesWith(state) ==
    [p \in {1, 2} |->
        IF p = 1
        THEN [owner |-> "1", pledgeState |-> "0", nDelegates |-> 1, lastDelegate |-> "2",
              intendedProject |-> "0", oldPledge |-> "0", commitTime |-> 0]
        ELSE [owner |-> "3", pledgeState |-> state, nDelegates |-> 0, lastDelegate |-> "0",
              intendedProject |-> "0", oldPledge |-> "1", commitTime |-> 0]]

\* the donations of earlier transactions (txHash 0): two of the same amount
\* on pledge 1, one on pledge 2
StoreWith(ps, as) ==
    LET d1 == [amount |-> 1, pledgeId |-> 1, txHash |-> 0, owner |-> "1",
               status |-> getDonationStatus(ps[1], as["1"], FALSE, TRUE),
               delegate |-> "2", intendedProject |-> "0"]
        d3 == [amount |-> MaxAmount, pledgeId |-> 2, txHash |-> 0, owner |-> "3",
               status |-> getDonationStatus(ps[2], as["3"], FALSE, FALSE),
               delegate |-> Undefined, intendedProject |-> "0"]
    IN  <<d1, d1, d3>>

NoMutation == [keys |-> {}, v |-> NoValues, unset |-> {}]

NoInfo ==
    [fromPledgeAdmin |-> NoAdmin, toPledgeAdmin |-> NoAdmin,
     fromPledge |-> PledgesWith("0")[1], toPledge |-> PledgesWith("0")[1], toPledgeId |-> 0,
     delegate |-> NoAdmin, intendedProject |-> NoAdmin, donation |-> NoDonation,
     donationId |-> 0, toDonation |-> 0, amount |-> 0, ts |-> 0]

InitCacheEmpty ==
    /\ blockTimes = <<>>
    /\ fetchingBlocks = <<>>
    /\ inFlight = {}
    /\ tsCall = [c \in Events |-> NoCall]

InitChain ==
    \E state \in {"0", "1", "2"}, type \in {"campaign", "milestone"} :
        /\ pledges = PledgesWith(state)
        /\ admins = AdminsWith(type)

InitEngine ==
    /\ donations = StoreWith(pledges, admins)
    /\ history = {}
    /\ nRest = 0
    /\ queue = [tx \in TxHashes |-> <<>>]
    /\ processing = [tx \in TxHashes |-> FALSE]
    /\ events = <<>>
    /\ proc = [e \in Events |-> NoProc]
    /\ calls = [e \in Events |-> NoCalls]
    /\ mile = [e \in Events |-> <<>>]

InitMut ==
    /\ mutIn = NoInfo
    /\ mutOut = [done |-> FALSE, mutation |-> NoMutation, milestones |-> <<>>]

Init == InitCacheEmpty /\ InitChain /\ InitEngine /\ InitMut

Next ==
    \/ \E from \in 0..2, to \in 1..2, amount \in Amounts, txHash \in TxHashes :
          from # to /\ Transfer(from, to, amount, txHash)
    \/ \E f \in inFlight : GetBlockResolve(f)
    \/ \E f \in inFlight : GetBlockReject(f)
    \/ \E e \in Events : AfterTs(e)
    \/ \E e \in Events, ok \in BOOLEAN : GetPledgeDone(e, ok)
    \/ \E e \in Events, ok \in BOOLEAN : FindDone(e, ok)
    \/ \E e \in Events, w \in {"patch", "create"}, ok \in BOOLEAN : WriteDone(e, w, ok)
    \/ \E e \in Events, ok \in BOOLEAN : HistoryDone(e, ok)
    \/ \E e \in Events : Purge(e)
    \/ \E e \in Events : TimerFire(e)
    \/ \E txHash \in TxHashes : RestCreate(txHash)

Spec == Init /\ [][Next]_vars

(***************************************************************************)
(* Specification of the cache alone: callers resolve block numbers against *)
(* a cache that already holds CacheCap - 1 timestamps.                     *)
(***************************************************************************)
WarmBlocks == 1..(CacheCap - 1)
FreshBlocks == CacheCap..(CacheCap + NumFreshBlocks - 1)
CacheBlocks == {1} \cup FreshBlocks

InitCache ==
    /\ blockTimes = [b \in WarmBlocks |-> DateOf(BlockTimestamp(b))]
    /\ fetchingBlocks = <<>>
    /\ inFlight = {}
    /\ tsCall = [c \in Events |-> NoCall]
    /\ pledges = PledgesWith("0")
    /\ admins = AdminsWith("campaign")
    /\ InitEngine
    /\ InitMut

\* a caller whose previous call has settled resolves another block number
CallGetBlockTimestamp(c, b) ==
    /\ tsCall[c].st # "pending"
    /\ getBlockTimestamp(c, b)
    /\ UNCHANGED <<engineVars, mutVars>>

NextCache ==
    \/ \E c \in Events, b \in CacheBlocks : CallGetBlockTimestamp(c, b)
    \/ \E f \in inFlight : GetBlockResolve(f)
    \/ \E f \in inFlight : GetBlockReject(f)

SpecCache == InitCache /\ [][NextCache]_vars

(***************************************************************************)
(* Specification of createDonationMutation alone: it is applied to every   *)
(* transferInfo built from the values below.                               *)
(***************************************************************************)
MutInfos ==
    { [fromPledgeAdmin |-> AdminsWith("campaign")["1"],
       toPledgeAdmin |-> [id |-> "3", type |-> type, typeId |-> "p3"],
       fromPledge |-> PledgesWith("0")[1],
       toPledge |-> [owner |-> "3", pledgeState |-> state,
                     nDelegates |-> IF hasDelegate THEN 1 ELSE 0,
                     lastDelegate |-> IF hasDelegate THEN "2" ELSE "0",
                     intendedProject |-> IF hasProject THEN "4" ELSE "0",
                     oldPledge |-> "1", commitTime |-> commitTime],
       toPledgeId |-> 2,
       delegate |-> IF hasDelegate THEN AdminsWith("campaign")["2"] ELSE NoAdmin,
       intendedProject |-> IF hasProject
                           THEN [id |-> "4", type |-> "campaign", typeId |-> "c4"]
                           ELSE NoAdmin,
       donation |-> [amount |-> MaxAmount, pledgeId |-> 1, txHash |-> 0, owner |-> "1",
                     status |-> "waiting", delegate |-> donationDelegate,
                     intendedProject |-> donationProject],
       donationId |-> 1, toDonation |-> 0, amount |-> amount, ts |-> DateOf(BlockTimestamp(1))]
      : type \in {"giver", "dac", "campaign", "milestone"},
        state \in {"0", "1", "2"},
        hasDelegate \in BOOLEAN,
        hasProject \in BOOLEAN,
        commitTime \in {0, 1},
        donationDelegate \in {Undefined, "2"},
        donationProject \in {Undefined, "0", "4"},
        amount \in Amounts }

InitMutation ==
    /\ InitCacheEmpty
    /\ pledges = PledgesWith("0")
    /\ admins = AdminsWith("campaign")
    /\ InitEngine
    /\ mutIn \in MutInfos
    /\ mutOut = [done |-> FALSE, mutation |-> NoMutation, milestones |-> <<>>]

\* createDonationMutation(transferInfo) is called
ComputeMutation ==
    /\ ~mutOut.done
    /\ mutOut' = [done |-> TRUE, mutation |-> createDonationMutation(mutIn),
                  milestones |-> MilestonePatches(mutIn)]
    /\ UNCHANGED <<cacheVars, engineVars, mutIn>>

NextMutation == ComputeMutation

SpecMutation == InitMutation /\ [][NextMutation]_vars

(***************************************************************************)
(* Properties.                                                             *)
(***************************************************************************)
Submitted == 1..Len(events)

\* the processEvent task of event e has been started by the queue
Started(e) == proc[e].pc \notin {"new", "queued"}

\* the processEvent task of event e has called purge and ended
Finished(e) == proc[e].pc = "done"

StoreCalls(e) == calls[e].find + calls[e].patch + calls[e].create

\* C1: events of one transaction hash are processed one at a time and in
\* the order they were handed to transfer(): when an event has been started
\* or has issued a donation-store call, every event with the same hash that
\* was submitted before it has finished.
C1_SerializeByKey ==
    \A e1 \in Submitted, e2 \in Submitted :
        (e1 < e2 /\ events[e1].txHash = events[e2].txHash /\ (Started(e2) \/ StoreCalls(e2) > 0))
            => Finished(e1)

\* two events of one transaction hash have both patched the store
C1_Witness ==
    \E e1 \in Submitted, e2 \in Submitted :
        /\ e1 < e2
        /\ events[e1].txHash = events[e2].txHash
        /\ calls[e1].patch > 0
        /\ calls[e2].patch > 0

FetchesOf(b) == {f \in inFlight : f.blk = b}

\* C2: for every block number at most one getBlock call is in flight, and a
\* getBlockTimestamp call made while one is in flight starts no other call
\* and is put on the list of waiters of that block.
C2_FetchCoalescing ==
    /\ [](\A f \in inFlight : Cardinality(FetchesOf(f.blk)) <= 1)
    /\ [][\A c \in Events :
            (/\ tsCall[c].st # "pending"
             /\ tsCall'[c].st = "pending"
             /\ FetchesOf(tsCall'[c].blk) # {})
                => /\ inFlight' = inFlight
                   /\ tsCall'[c].blk \in DOMAIN fetchingBlocks'
                   /\ c \in SeqToSet(fetchingBlocks'[tsCall'[c].blk])]_vars

\* a caller waits on the fetch another caller started
C2_Witness ==
    \E f \in inFlight :
        /\ f.blk \in DOMAIN fetchingBlocks
        /\ \E c \in SeqToSet(fetchingBlocks[f.blk]) :
              c # f.caller /\ tsCall[c].st = "pending" /\ tsCall[c].blk = f.blk

\* C3: the timestamp cache never holds more than 50 entries.
C3_CacheBounded == Cardinality(DOMAIN blockTimes) <= CacheCap

\* a timestamp was inserted into a full cache: its caller has it, and the
\* eviction has run
C3_Witness ==
    \E c \in Events :
        /\ tsCall[c].st = "resolved"
        /\ tsCall[c].blk \in FreshBlocks
        /\ Cardinality(DOMAIN blockTimes) < Cardinality(WarmBlocks)

\* C4: a mint event is rescheduled at most once; when its first attempt
\* finds no donation with its txHash it issues no create and no patch and
\* waits for its one retry; when the retried attempt finds none either it
\* issues exactly one create, of a donation with that txHash, and is not
\* rescheduled.
C4_MintRetry ==
    \A e \in Submitted :
        IsMint(e) =>
            /\ calls[e].resched <= 1
            /\ (proc[e].lookup = "missing" /\ ~proc[e].retry)
                  => /\ proc[e].pc = "retryWait"
                     /\ calls[e].resched = 1
                     /\ calls[e].create = 0
                     /\ calls[e].patch = 0
            /\ (proc[e].lookup = "missing" /\ proc[e].retry)
                  => /\ proc[e].pc \in {"write", "purge", "done"}
                     /\ calls[e].resched = 1
                     /\ calls[e].create = 1
                     /\ calls[e].patch = 0
                     /\ CreateOf(e).txHash = events[e].txHash
                     /\ proc[e].toDonation # 0
                           => donations[proc[e].toDonation].txHash = events[e].txHash

\* a retried mint has created its donation
C4_Witness ==
    \E e \in Submitted :
        /\ IsMint(e)
        /\ proc[e].retry
        /\ proc[e].lookup = "missing"
        /\ proc[e].toDonation # 0
        /\ proc[e].pc = "done"

\* the lookup of non-mint event e matched a donation
Matched(e) == ~IsMint(e) /\ proc[e].lookup = "hit"

FullTransferOf(e) == Matched(e) /\ proc[e].donation.amount = events[e].amount

SplitOf(e) == Matched(e) /\ proc[e].donation.amount > events[e].amount

\* C5: a transfer of the whole amount of the matched donation issues exactly
\* one patch and no create, and no step of its task changes the number of
\* donation records.
C5_FullTransfer ==
    /\ [](\A e \in Submitted :
            FullTransferOf(e) => calls[e].patch = 1 /\ calls[e].create = 0
                                 /\ proc[e].toDonation = 0)
    /\ [][\A e \in Submitted :
            (FullTransferOf(e) /\ proc'[e] # proc[e]) => Len(donations') = Len(donations)]_vars

\* a full transfer has patched its donation and ended
C5_Witness ==
    \E e \in Submitted :
        FullTransferOf(e) /\ proc[e].pc = "done" /\ calls[e].patch = 1 /\ calls[e].history = 1

\* C6: a transfer of less than the amount of the matched donation issues
\* exactly one patch and one create; the amount the patch leaves on the
\* original donation plus the amount of the new donation is the amount the
\* original donation had when it was matched.
C6_Split ==
    /\ [](\A e \in Submitted :
            SplitOf(e) =>
                /\ calls[e].patch = 1
                /\ calls[e].create = 1
                /\ "amount" \in PatchOf(e).keys
                /\ PatchOf(e).v.amount + CreateOf(e).amount = proc[e].donation.amount)
    /\ [][\A e \in Submitted :
            SplitOf(e) =>
                /\ ("patch" \in proc[e].writes /\ "patch" \notin proc'[e].writes
                        /\ donations' # donations)
                      => donations'[proc[e].donationId].amount + events[e].amount
                            = proc[e].donation.amount
                /\ ("create" \in proc[e].writes /\ "create" \notin proc'[e].writes
                        /\ donations' # donations)
                      => /\ Len(donations') = Len(donations) + 1
                         /\ donations'[Len(donations')].amount = events[e].amount]_vars

\* a split has patched the original donation, created the new one and ended
C6_Witness ==
    \E e \in Submitted :
        /\ SplitOf(e)
        /\ proc[e].pc = "done"
        /\ proc[e].writes = {}
        /\ proc[e].toDonation # 0
        /\ donations[proc[e].toDonation].amount = events[e].amount

\* the processEvent promise of event e has settled and no retry is pending
Settled(e) ==
    \/ proc[e].pc = "done"
    \/ proc[e].pc = "awaitTs" /\ tsCall[e].st = "rejected"

\* C7: whenever the processing of an event has ended, with or without a
\* failure of one of its external calls, purge(txHash) has been called for
\* it.
C7_PurgeAfterFailure ==
    \A e \in Submitted : Settled(e) => calls[e].purge > 0

\* C8: the mutation computed for a destination pledge in state Paying and a
\* donation that had a delegate unsets delegate, delegateId and delegateType.
C8_PayingUnsetsDelegate ==
    (/\ mutOut.done
     /\ mutIn.toPledge.pledgeState = "1"
     /\ Truthy(mutIn.donation.delegate))
        => DelegateFields \subseteq mutOut.mutation.unset

\* the mutation was computed for a Paying pledge that still has a delegate
C8_Witness ==
    /\ mutOut.done
    /\ mutIn.toPledge.pledgeState = "1"
    /\ Truthy(mutIn.donation.delegate)
    /\ Present(mutIn.delegate)
    /\ DelegateFields \subseteq mutOut.mutation.unset

\* the milestone patches expected of event e
ExpectedMilestonePatches(e) ==
    LET toPledge == pledges[events[e].to]
        toAdmin == admins[toPledge.owner]
    IN  IF Matched(e) /\ toAdmin.type = "milestone" /\ toPledge.pledgeState = "1"
        THEN << [id |-> toAdmin.typeId, status |-> "Paying", mined |-> TRUE] >>
        ELSE IF Matched(e) /\ toAdmin.type = "milestone" /\ toPledge.pledgeState = "2"
        THEN << [id |-> toAdmin.typeId, status |-> "Paid", mined |-> TRUE] >>
        ELSE <<>>

\* C9: an event issues exactly one milestone patch, on the typeId of the
\* destination admin, mined and with status Paying or Paid, when it is a
\* matched transfer to a Paying or Paid pledge owned by a milestone, and no
\* milestone patch otherwise.
C9_MilestonePatch ==
    \A e \in Events : mile[e] = IF e \in Submitted THEN ExpectedMilestonePatches(e) ELSE <<>>

\* a split to a Paid milestone pledge has issued its milestone patch
C9_Witness ==
    \E e \in Submitted :
        /\ SplitOf(e)
        /\ pledges[events[e].to].pledgeState = "2"
        /\ Len(mile[e]) = 1
        /\ mile[e][1].status = "Paid"

\* C10: an event creates at most one history entry, and only when the
\* destination pledge is in state Normal.
C10_HistoryOnlyNormal ==
    \A e \in Events :
        /\ calls[e].history <= 1
        /\ Cardinality({h \in history : h.ev = e}) <= calls[e].history
        /\ calls[e].history > 0 => (~IsMint(e) /\ pledges[events[e].to].pledgeState = "0")

\* a split to a pledge that is not Normal has ended without a history entry
C10_Witness ==
    \E e \in Submitted :
        /\ SplitOf(e)
        /\ pledges[events[e].to].pledgeState # "0"
        /\ proc[e].toDonation # 0
        /\ proc[e].writes = {}
        /\ proc[e].pc = "done"
        /\ calls[e].history = 0

\* event e2 is a second delivery of event e1
Redelivery(e1, e2) == e1 < e2 /\ events[e1] = events[e2]

\* event e has issued its donation writes, none of its calls has rejected,
\* and its task has ended
FullyApplied(e) ==
    /\ proc[e].pc = "done"
    /\ proc[e].writes = {}
    /\ calls[e].failed = 0
    /\ calls[e].patch + calls[e].create > 0

\* the donation records as the reconciliation sees them
StoreView(store) ==
    [i \in 1..Len(store) |->
        [amount |-> store[i].amount, pledgeId |-> store[i].pledgeId,
         owner |-> store[i].owner, status |-> store[i].status]]

\* C11: when an event that has been fully applied is delivered a second
\* time, no step of the second processing changes the donation records
\* (their number, amount, pledgeId, owner, status) or the history.
C11_IdempotentRedelivery ==
    [][\A e1 \in Submitted, e2 \in Submitted :
          (Redelivery(e1, e2) /\ FullyApplied(e1) /\ proc'[e2] # proc[e2])
              => /\ StoreView(donations') = StoreView(donations)
                 /\ history' = history]_vars

\* the status getDonationStatus gives for the destination pledge of event e
ComputedStatus(e) ==
    LET toPledge == pledges[events[e].to]
    IN  getDonationStatus(toPledge, admins[toPledge.owner],
                          toPledge.intendedProject # "0", toPledge.nDelegates > 0)

\* C12: the status a mint event writes, in the donation it creates and in
\* the patch of the donation it finds, is the status computed from the
\* destination pledge and its owning admin: paying, paid, to_approve,
\* waiting or committed.
C12_MintStatusComputed ==
    \A e \in Submitted :
        IsMint(e) =>
            /\ calls[e].patch > 0
                  => "status" \in PatchOf(e).keys /\ PatchOf(e).v.status = ComputedStatus(e)
            /\ calls[e].create > 0 => CreateOf(e).status = ComputedStatus(e)

\* the donations of the store whose pledgeId is the source pledge
Candidates(store, from) == {i \in 1..Len(store) : store[i].pledgeId = from}

\* no donation of the source pledge, or several of which none has the
\* txHash alone and none has the amount
Unmatchable(store, from, amount, txHash) ==
    LET cand == Candidates(store, from)
    IN  \/ cand = {}
        \/ /\ Cardinality(cand) > 1
           /\ Cardinality({i \in cand : store[i].txHash = txHash}) # 1
           /\ \A i \in cand : store[i].amount # amount

\* the lookup of event e returns in this step
LookupReturns(e) ==
    proc[e].pc = "find" /\ proc'[e].pc # "find" /\ proc'[e].lookup # "failed"

\* C13: a non-mint event whose lookup returns while the store holds no
\* matchable candidate finds nothing; an event that found nothing issues no
\* donation patch or create, no milestone patch and no history entry, is not
\* rescheduled, and goes on to call purge(txHash), exactly once.
C13_NoCandidateContained ==
    /\ [][\A e \in Submitted :
            (/\ ~IsMint(e)
             /\ LookupReturns(e)
             /\ Unmatchable(donations, events[e].from, events[e].amount, events[e].txHash))
                => proc'[e].lookup = "missing"]_vars
    /\ [](\A e \in Submitted :
            (~IsMint(e) /\ proc[e].lookup = "missing") =>
                /\ calls[e].patch = 0
                /\ calls[e].create = 0
                /\ calls[e].history = 0
                /\ calls[e].resched = 0
                /\ mile[e] = <<>>
                /\ {h \in history : h.ev = e} = {}
                /\ proc[e].pc \in {"purge", "done"}
                /\ calls[e].purge = IF proc[e].pc = "done" THEN 1 ELSE 0)

\* a transfer that found several candidates of which none matched has
\* called purge and ended
C13_Witness ==
    \E e \in Submitted :
        /\ ~IsMint(e)
        /\ proc[e].lookup = "missing"
        /\ proc[e].pc = "done"
        /\ calls[e].purge = 1
        /\ Cardinality(Candidates(donations, events[e].from)) > 1
        /\ Unmatchable(donations, events[e].from, events[e].amount, events[e].txHash)

\* a transfer from a pledge that has no donation has called purge and ended
C13_EmptyReached ==
    \E e \in Submitted :
        /\ ~IsMint(e)
        /\ proc[e].lookup = "missing"
        /\ proc[e].pc = "done"
        /\ Candidates(donations, events[e].from) = {}

\* the getBlock call f resolves in this step
FetchResolves(f) ==
    f \in inFlight /\ f \notin inFlight' /\ tsCall'[f.caller].st = "resolved"

\* C14: when the insertion of a resolved timestamp makes the cache hold
\* more than 50 entries, the cache afterwards holds exactly 50 entries, all
\* taken unchanged from the entries it held with the new one, and every
\* entry dropped has a lower block number than every entry kept.
C14_EvictionKeepsHighest ==
    [][\A f \in inFlight :
          LET keys == (DOMAIN blockTimes) \cup {f.blk}
          IN  (FetchResolves(f) /\ Cardinality(keys) > CacheCap)
                  => /\ Cardinality(DOMAIN blockTimes') = CacheCap
                     /\ DOMAIN blockTimes' \subseteq keys
                     /\ \A k \in (DOMAIN blockTimes') \cap (DOMAIN blockTimes) :
                           blockTimes'[k] = blockTimes[k]
                     /\ \A k \in DOMAIN blockTimes', j \in keys \ DOMAIN blockTimes' :
                           j < k]_vars

\* the callers whose getBlockTimestamp(b) promise is pending
PendingOn(b) == {c \in Events : tsCall[c].st = "pending" /\ tsCall[c].blk = b}

\* C15: when the getBlock call of a block completes, the caller that
\* started it and every caller waiting on it are settled alike: resolved
\* with the same timestamp, the in-flight marker of the block cleared, when
\* it succeeded, and rejected when it failed; no caller stays pending on a
\* block for which no getBlock call is in flight.
C15_EveryCallerSettles ==
    /\ [][\A f \in inFlight :
            f \notin inFlight' =>
                /\ tsCall'[f.caller].st \in {"resolved", "rejected"}
                /\ \A c \in PendingOn(f.blk) : tsCall'[c] = tsCall'[f.caller]
                /\ tsCall'[f.caller].st = "resolved"
                      => /\ tsCall'[f.caller].ts = DateOf(BlockTimestamp(f.blk))
                         /\ f.blk \notin DOMAIN fetchingBlocks']_vars
    /\ [](\A c \in Events : tsCall[c].st = "pending" => FetchesOf(tsCall[c].blk) # {})

\* C16: the mutation computed for a donation that had an intended project
\* and a destination pledge that has none unsets intendedProject,
\* intendedProjectId and intendedProjectType and does not set
\* intendedProject, whatever the other inputs are.
C16_UnsetsIntendedProject ==
    (/\ mutOut.done
     /\ Truthy(mutIn.donation.intendedProject)
     /\ ~Present(mutIn.intendedProject))
        => /\ IntendedProjectFields \subseteq mutOut.mutation.unset
           /\ "intendedProject" \notin mutOut.mutation.keys

\* the donations the priority rule allows for a transfer (0: none): the
\* single candidate; else the one candidate with the txHash; else, when no
\* candidate has the txHash, the first candidate with the amount; the rule
\* does not say which when several candidates have the txHash
AllowedChoices(store, from, amount, txHash) ==
    LET cand == Candidates(store, from)
        byTxHash == {i \in cand : store[i].txHash = txHash}
        byAmount == {i \in cand : store[i].amount = amount}
    IN  IF Cardinality(cand) = 1 THEN cand
        ELSE IF Cardinality(byTxHash) = 1 THEN byTxHash
        ELSE IF byTxHash # {} THEN cand \cup {0}
        ELSE IF byAmount # {} THEN {CHOOSE i \in byAmount : \A j \in byAmount : i <= j}
        ELSE {0}

C18_BusyWhileRetryPending ==
    \A e \in Submitted :
        (IsMint(e) /\ calls[e].resched > 0) =>
            /\ ~Finished(e) =>
                  /\ calls[e].purge = 0
                  /\ IsProcessing(events[e].txHash)
                  /\ \A e2 \in Submitted :
                        (e < e2 /\ events[e2].txHash = events[e].txHash)
                            => proc[e2].pc = "queued" /\ StoreCalls(e2) = 0
            /\ Finished(e) =>
                  /\ calls[e].purge = 1
                  /\ proc[e].retry
                  /\ proc[e].lookup \in {"missing", "hit"}
                        => calls[e].create + calls[e].patch = 1

\* a later event of the same transaction waits in the queue while the
\* retried attempt of a mint has its create in flight
C18_Witness ==
    \E e \in Submitted, e2 \in Submitted :
        /\ IsMint(e)
        /\ calls[e].resched = 1
        /\ proc[e].retry
        /\ proc[e].pc = "write"
        /\ "create" \in proc[e].writes
        /\ e < e2
        /\ events[e2].txHash = events[e].txHash
        /\ proc[e2].pc = "queued"

\* event e issues its donationsHistory.create call in this step
IssuesHistory(e) == calls'[e].history > calls[e].history

\* C19: a non-mint event issues its history call only when its patch, and
\* for a split its create, have completed and none of its calls has
\* rejected; it reaches the purge only when no history call is in flight,
\* and after a history call that was issued has completed or rejected; an
\* event one of whose donation writes rejected issues no history call and
\* leaves no history entry.
C19_OrderedSteps ==
    /\ [][\A e \in Submitted :
            (~IsMint(e) /\ IssuesHistory(e)) =>
                /\ proc[e].pc = "write"
                /\ proc'[e].writes = {}
                /\ calls'[e].failed = 0
                /\ calls'[e].patch = 1
                /\ calls'[e].purge = 0
                /\ SplitOf(e) => calls'[e].create = 1 /\ proc'[e].toDonation # 0]_vars
    /\ [](\A e \in Submitted :
            ~IsMint(e) =>
                /\ (proc[e].pc \in {"purge", "done"} /\ calls[e].history > 0)
                      => \/ \E h \in history : h.ev = e
                         \/ calls[e].failed > 0
                /\ (\E h \in history : h.ev = e) => calls[e].history = 1
                /\ calls[e].purge > 0 => proc[e].pc = "done"
                /\ (calls[e].failed > 0 /\ calls[e].history > 0)
                      => /\ proc[e].pc \in {"purge", "done"}
                         /\ {h \in history : h.ev = e} = {})

\* a split has created its history entry after both writes and has ended
C19_Witness ==
    \E e \in Submitted :
        /\ SplitOf(e)
        /\ proc[e].pc = "done"
        /\ proc[e].toDonation # 0
        /\ calls[e].failed = 0
        /\ calls[e].purge = 1
        /\ \E h \in history : h.ev = e /\ h.entry.donationId = proc[e].toDonation

\* a split whose patch rejected has ended without a history call
C19_FailedReached ==
    \E e \in Submitted :
        /\ SplitOf(e)
        /\ proc[e].pc = "done"
        /\ calls[e].failed > 0
        /\ proc[e].toDonation # 0
        /\ calls[e].history = 0

RECURSIVE TotalAmount(_)
\* the sum of the amounts of the donation records
TotalAmount(store) ==
    IF store = <<>> THEN 0 ELSE Head(store).amount + TotalAmount(Tail(store))

RECURSIVE Moved(_, _, _)
\* the amount the events evs move out of (side "from") or into (side "to")
\* pledge p
Moved(evs, side, p) ==
    IF evs = <<>> THEN 0
    ELSE (IF (IF side = "from" THEN Head(evs).from ELSE Head(evs).to) = p
          THEN Head(evs).amount ELSE 0) + Moved(Tail(evs), side, p)

\* the chain can have emitted the events: no pledge gives more than it held
\* in the initial store and received
Feasible ==
    \A p \in DOMAIN pledges :
        LET initial == StoreWith(pledges, admins)
            held == TotalAmount(SelectSeq(initial, LAMBDA d : d.pledgeId = p))
        IN  Moved(events, "from", p) <= held + Moved(events, "to", p)

\* only non-mint events with distinct transaction hashes were submitted, no
\* donation came through the REST api, and every event has ended with none
\* of its calls rejected
TransfersCompleted ==
    /\ Submitted # {}
    /\ nRest = 0
    /\ Feasible
    /\ \A e \in Submitted :
          /\ ~IsMint(e)
          /\ Finished(e)
          /\ proc[e].writes = {}
          /\ calls[e].failed = 0
    /\ \A e1 \in Submitted, e2 \in Submitted :
          e1 # e2 => events[e1].txHash # events[e2].txHash

\* C20: when non-mint events with distinct transaction hashes, which the
\* chain can have emitted, have all completed, every store call succeeding,
\* the sum of the amounts of the donation records is the sum before the
\* events started.
C20_AmountConserved ==
    TransfersCompleted => TotalAmount(donations) = TotalAmount(StoreWith(pledges, admins))

\* C21: no donation record ever has a negative amount.
C21_NoNegativeAmount ==
    \A i \in 1..Len(donations) : donations[i].amount >= 0

\* C22: a computed mutation whose unset directive names delegate or
\* delegateId assigns neither of them, and one whose unset directive names a
\* field of the intended-project triple assigns none of the triple.
C22_NoSetAndUnset ==
    mutOut.done =>
        LET m == mutOut.mutation
        IN  /\ (m.unset \cap {"delegate", "delegateId"} # {})
                  => m.keys \cap {"delegate", "delegateId"} = {}
            /\ (m.unset \cap IntendedProjectFields # {})
                  => m.keys \cap IntendedProjectFields = {}

=============================================================================
